---- MODULE Spec2Model ----
(***************************************************************************)
(* Authentication providers of metadata/ingestion/ometa/openmetadata_rest. *)
(* One provider instance (its kind chosen at construction) is shared by    *)
(* two callers.  Each caller runs get_access_token step by step: key       *)
(* loading (Google, Okta), the outbound token exchange, the two stores     *)
(* into the instance fields and the two reads of the returned tuple.       *)
(* The token endpoint is the environment: every exchange draws its         *)
(* response from Responses.                                                *)
(***************************************************************************)
EXTENDS Integers, FiniteSets, Sequences, TLC

\* Number of distinct access-token values an endpoint may hand out.
MaxTok == 2
\* Number of distinct expires_in values an endpoint may hand out.
MaxExp == 2

\* Python's None, as stored in generated_auth_token / expiry (absent value).
None == 0
\* The sentinel string "no_token" of the no-op provider.
NO_TOKEN == -1

Callers == {1, 2}

Authenticated == {"Google", "Okta", "Auth0", "Azure", "CustomOIDC"}
Providers == {"NoOp"} \cup Authenticated
\* Providers whose auth_token first loads private-key material.
KeyProviders == {"Google", "Okta"}

\* HTTP status codes of the token endpoint; 0 stands for "no response"
\* (the transport failed), -1 for "no exchange made in this call".
OkStatus == {200}
ErrStatus == {400, 500}

Resp(s, j, t, e, x) ==
    [status |-> s, json |-> j, access_token |-> t, expires_in |-> e, error |-> x]

NoResp == Resp(-1, FALSE, None, None, "none")
TransportFailure == Resp(0, FALSE, None, None, "none")

\* What a token endpoint can answer: a 2xx JSON object with each of the two
\* fields present or absent, a 2xx body that is not JSON, a 4xx/5xx JSON
\* error body, a 4xx/5xx body that is not JSON, or no answer at all.
Responses ==
    {Resp(s, TRUE, t, e, "") : s \in OkStatus, t \in 0..MaxTok, e \in 0..MaxExp}
    \cup {Resp(s, FALSE, None, None, "") : s \in OkStatus \cup ErrStatus}
    \cup {Resp(s, TRUE, None, None, "invalid_client") : s \in ErrStatus}
    \cup {TransportFailure}

\* The response body as text (response.text / res.read()).
BodyOf(r) ==
    [json |-> r.json, access_token |-> r.access_token,
     expires_in |-> r.expires_in, error |-> r.error]
NoBody == BodyOf(NoResp)

\* requests.Response.ok: the status is below 400.
Ok(r) == r.status >= 200 /\ r.status < 400

Err(t, b, k, h) ==
    [type |-> t, message |-> [body |-> b, key |-> k], http_error |-> h]
NoErr == Err("none", NoBody, "", 0)

\* APIError(error={"message": response.text}, http_error=response.status_code)
OIDCErrorNoStatus(r) == Err("APIError", BodyOf(r), "", 0)
OIDCError(r) == Err("APIError", BodyOf(r), "", r.status)

NoResult == <<None, None>>
\* NoOpAuthenticationProvider.get_access_token's return value.
NoOpEmpty == <<None, None>>
NoOpResult == <<NO_TOKEN, None>>

VARIABLES
    provider,              \* class of the provider instance
    concurrent,            \* TRUE: the callers are threads running in parallel
    generated_auth_token,  \* self.generated_auth_token
    expiry,                \* self.expiry
    token_from,            \* history: response generated_auth_token was taken from
    expiry_from,           \* history: response expiry was taken from
    pc,                    \* position of each caller
    op,                    \* method each caller called last
    resp,                  \* response to the caller's own exchange (a local)
    requests,              \* outbound requests issued by the caller's current call
    result,                \* the tuple being returned / returned to the caller
    err                    \* exception that ended the caller's call

vars == <<provider, concurrent, generated_auth_token, expiry, token_from,
          expiry_from, pc, op, resp, requests, result, err>>

\* Positions at which no call of the caller is in progress.
Rest == {"idle", "returned", "raised", "exited"}
\* Positions from which the caller can make another call (sys.exit ended it
\* otherwise).
Callable == {"idle", "returned", "raised"}

InitCommon ==
    /\ provider \in Providers
    /\ generated_auth_token = None
    /\ expiry = None
    /\ token_from = NoResp
    /\ expiry_from = NoResp
    /\ pc = [c \in Callers |-> "idle"]
    /\ op = [c \in Callers |-> "none"]
    /\ resp = [c \in Callers |-> NoResp]
    /\ requests = [c \in Callers |-> 0]
    /\ result = [c \in Callers |-> NoResult]
    /\ err = [c \in Callers |-> NoErr]

\* Calls made one after another.
Init == InitCommon /\ concurrent = FALSE
\* Calls made by two threads at once.
InitConc == InitCommon /\ concurrent = TRUE

MayCall(c) ==
    /\ pc[c] \in Callable
    /\ concurrent \/ \A d \in Callers \ {c} : pc[d] \in Rest

Fields == <<generated_auth_token, expiry, token_from, expiry_from>>

----
\* NoOpAuthenticationProvider

NoOpAuthToken(c) ==
    /\ provider = "NoOp"
    /\ MayCall(c)
    /\ pc' = [pc EXCEPT ![c] = "returned"]
    /\ op' = [op EXCEPT ![c] = "auth_token"]
    /\ result' = [result EXCEPT ![c] = NoResult]
    /\ UNCHANGED <<provider, concurrent, Fields, resp, requests, err>>

NoOpGetAccessToken(c) ==
    /\ provider = "NoOp"
    /\ MayCall(c)
    /\ pc' = [pc EXCEPT ![c] = "returned"]
    /\ op' = [op EXCEPT ![c] = "get_access_token"]
    /\ result' = [result EXCEPT ![c] = NoOpResult]
    /\ UNCHANGED <<provider, concurrent, Fields, resp, requests, err>>

----
\* The authenticated providers

\* get_access_token is entered: self.auth_token() starts.
Call(c) ==
    /\ provider \in Authenticated
    /\ MayCall(c)
    /\ pc' = [pc EXCEPT ![c] = IF provider \in KeyProviders THEN "key" ELSE "post"]
    /\ op' = [op EXCEPT ![c] = "get_access_token"]
    /\ resp' = [resp EXCEPT ![c] = NoResp]
    /\ requests' = [requests EXCEPT ![c] = 0]
    /\ result' = [result EXCEPT ![c] = NoResult]
    /\ err' = [err EXCEPT ![c] = NoErr]
    /\ UNCHANGED <<provider, concurrent, Fields>>

\* How a call ends when an exception e is raised inside auth_token: Okta
\* catches every Exception and calls sys.exit(); Azure does so for KeyError.
Fail(c, e) ==
    LET exits == \/ provider = "Okta"
                 \/ provider = "Azure" /\ e.type = "KeyError"
    IN /\ pc' = [pc EXCEPT ![c] = IF exits THEN "exited" ELSE "raised"]
       /\ err' = [err EXCEPT ![c] = IF exits THEN Err("SystemExit", NoBody, "", 0)
                                            ELSE e]

\* from_service_account_file(secretKey) / JWT.get_PEM_JWK(privateKey)
LoadKey(c) ==
    /\ pc[c] = "key"
    /\ \/ /\ pc' = [pc EXCEPT ![c] = "post"]
          /\ UNCHANGED err
       \/ Fail(c, Err("KeyMaterialError", NoBody, "", 0))
    /\ UNCHANGED <<provider, concurrent, Fields, op, resp, requests, result>>

\* The exception, if any, that the exchange and the parsing of its response
\* raise before the first store; NoErr when the stores are reached.
ExchangeError(p, r) ==
    CASE r.status = 0 -> Err("TransportError", NoBody, "", 0)
      [] p = "Google" ->
            IF Ok(r) /\ r.json /\ r.access_token # None /\ r.expires_in # None
            THEN NoErr
            ELSE Err("RefreshError", BodyOf(r), "", 0)
      [] p = "Okta" ->
            IF ~Ok(r) THEN Err("APIError", BodyOf(r), "", 0)
            ELSE IF ~r.json THEN Err("JSONDecodeError", NoBody, "", 0)
            ELSE NoErr
      [] p = "Auth0" ->
            IF ~r.json THEN Err("JSONDecodeError", NoBody, "", 0) ELSE NoErr
      [] p = "Azure" ->
            IF ~r.json THEN Err("JSONDecodeError", NoBody, "", 0) ELSE NoErr
      [] p = "CustomOIDC" ->
            IF ~Ok(r) THEN OIDCError(r)
            ELSE IF ~r.json THEN Err("JSONDecodeError", NoBody, "", 0)
            ELSE NoErr

\* The call of c sends n requests and receives r.
Post(c, r, n) ==
    /\ pc[c] = "post"
    /\ requests' = [requests EXCEPT ![c] = @ + n]
    /\ resp' = [resp EXCEPT ![c] = r]
    /\ IF ExchangeError(provider, r) = NoErr
       THEN /\ pc' = [pc EXCEPT ![c] = "store_token"]
            /\ UNCHANGED err
       ELSE Fail(c, ExchangeError(provider, r))
    /\ UNCHANGED <<provider, concurrent, Fields, op, result>>

ExchangeRetrying(c) ==
    \E r \in Responses : Post(c, r, IF Ok(r) THEN 1 ELSE 2)

\* credentials.refresh / fire_request / conn.request / acquire_token_for_client
\* / requests.post: one call, one outbound request.
Exchange(c) ==
    \E r \in Responses : Post(c, r, 1)

\* The value of token["access_token"] / response_dict.get("access_token").
ExpiryAsToken(r) == r.expires_in
TokenField(r) == r.access_token

\* The value of token["expires_in"] / response_dict.get("expires_in").
ExpiryField(r) == r.expires_in

StoreTokenIfUnset(c) ==
    /\ pc[c] = "store_token"
    /\ IF TokenField(resp[c]) = None /\ provider # "Okta"
       THEN /\ Fail(c, Err("KeyError", NoBody, "access_token", 0))
            /\ UNCHANGED <<generated_auth_token, token_from>>
       ELSE /\ IF generated_auth_token = None
               THEN /\ generated_auth_token' = TokenField(resp[c])
                    /\ token_from' = resp[c]
               ELSE UNCHANGED <<generated_auth_token, token_from>>
            /\ pc' = [pc EXCEPT ![c] = "store_expiry"]
            /\ UNCHANGED err
    /\ UNCHANGED <<provider, concurrent, expiry, expiry_from, op, resp,
                   requests, result>>

\* self.generated_auth_token = ...
StoreToken(c) ==
    /\ pc[c] = "store_token"
    /\ IF TokenField(resp[c]) = None /\ provider # "Okta"
       THEN /\ Fail(c, Err("KeyError", NoBody, "access_token", 0))
            /\ UNCHANGED <<generated_auth_token, token_from>>
       ELSE /\ generated_auth_token' = TokenField(resp[c])
            /\ token_from' = resp[c]
            /\ pc' = [pc EXCEPT ![c] = "store_expiry"]
            /\ UNCHANGED err
    /\ UNCHANGED <<provider, concurrent, expiry, expiry_from, op, resp,
                   requests, result>>

\* self.expiry = ...
StoreExpiry(c) ==
    /\ pc[c] = "store_expiry"
    /\ IF ExpiryField(resp[c]) = None /\ provider # "Okta"
       THEN /\ Fail(c, Err("KeyError", NoBody, "expires_in", 0))
            /\ UNCHANGED <<expiry, expiry_from>>
       ELSE /\ expiry' = ExpiryField(resp[c])
            /\ expiry_from' = resp[c]
            /\ pc' = [pc EXCEPT ![c] = "read_token"]
            /\ UNCHANGED err
    /\ UNCHANGED <<provider, concurrent, generated_auth_token, token_from, op,
                   resp, requests, result>>

\* return self.generated_auth_token, self.expiry : the first attribute read
ReadToken(c) ==
    /\ pc[c] = "read_token"
    /\ result' = [result EXCEPT ![c] = <<generated_auth_token, @[2]>>]
    /\ pc' = [pc EXCEPT ![c] = "read_expiry"]
    /\ UNCHANGED <<provider, concurrent, Fields, op, resp, requests, err>>

\* return self.generated_auth_token, self.expiry : the second attribute read
ReadExpiry(c) ==
    /\ pc[c] = "read_expiry"
    /\ result' = [result EXCEPT ![c] = <<@[1], expiry>>]
    /\ pc' = [pc EXCEPT ![c] = "returned"]
    /\ UNCHANGED <<provider, concurrent, Fields, op, resp, requests, err>>

Next ==
    \E c \in Callers :
        \/ NoOpAuthToken(c)
        \/ NoOpGetAccessToken(c)
        \/ Call(c)
        \/ LoadKey(c)
        \/ Exchange(c)
        \/ StoreToken(c)
        \/ StoreExpiry(c)
        \/ ReadToken(c)
        \/ ReadExpiry(c)

Spec == Init /\ [][Next]_vars
SpecConc == InitConc /\ [][Next]_vars

----
\* Properties

\* The caller's last get_access_token call has ended.
Finished(c) == pc[c] \in {"returned", "raised", "exited"} /\ op[c] = "get_access_token"

\* The exchange succeeded: a 2xx JSON answer carrying both fields.
Success(r) == Ok(r) /\ r.json /\ r.access_token # None /\ r.expires_in # None

\* No call is in progress on the instance.
Quiescent == \A c \in Callers : pc[c] \in Rest

\* C1: for every authenticated provider, a call whose exchange succeeded with
\* access_token = a and expires_in = e returns exactly the pair (a, e).
C1_SuccessReturnsResponsePair ==
    provider \in Authenticated =>
        \A c \in Callers :
            Finished(c) /\ Success(resp[c]) =>
                /\ pc[c] = "returned"
                /\ result[c] = <<resp[c].access_token, resp[c].expires_in>>

\* C1 witness: a call returned after a successful exchange, on an instance
\* whose other caller was answered with a different token.
C1_Witness ==
    \E c \in Callers, d \in Callers :
        /\ provider \in Authenticated
        /\ pc[c] = "returned" /\ Success(resp[c])
        /\ pc[d] = "returned" /\ Success(resp[d])
        /\ resp[c].access_token # resp[d].access_token
        /\ resp[c].access_token # resp[c].expires_in

\* C2: with calls made one after another, every call that returns yields the
\* token and expiry of the response to its own exchange, never a value an
\* earlier call left on the instance.
C2_SequentialCallsIndependent ==
    ~concurrent =>
        \A c \in Callers :
            pc[c] = "returned" /\ op[c] = "get_access_token" /\ provider \in Authenticated =>
                /\ result[c][1] = TokenField(resp[c])
                /\ result[c][2] = ExpiryField(resp[c])

\* C2 witness: two calls in sequence were answered differently and both
\* returned; the instance now holds the later one's values.
C2_Witness ==
    \E c \in Callers, d \in Callers :
        /\ ~concurrent /\ provider \in Authenticated
        /\ pc[c] = "returned" /\ pc[d] = "returned"
        /\ resp[c].access_token # resp[d].access_token
        /\ resp[c].expires_in # resp[d].expires_in
        /\ token_from = resp[d] /\ expiry_from = resp[d]

\* C3 (as claimed): for every authenticated provider, a non-success status
\* with an error body makes the call raise an error whose message contains
\* that body, and no pair is returned.
C3_NonSuccessRaisesUpstreamError ==
    provider \in Authenticated =>
        \A c \in Callers :
            Finished(c) /\ resp[c].status \in ErrStatus /\ resp[c].error # "" =>
                /\ pc[c] = "raised"
                /\ err[c].message.body = BodyOf(resp[c])
                /\ result[c] = NoResult

\* C4: in the generic OIDC provider a non-ok status raises APIError with the
\* response body as message and the status code as http_error, and nothing
\* is returned; an ok status raises no APIError.
C4_OIDCErrorVerbatim ==
    provider = "CustomOIDC" =>
        \A c \in Callers :
            resp[c].status > 0 =>
                IF Ok(resp[c])
                THEN err[c].type # "APIError"
                ELSE /\ pc[c] = "raised"
                     /\ err[c] = Err("APIError", BodyOf(resp[c]), "", resp[c].status)
                     /\ result[c] = NoResult

\* C4 witness: the generic OIDC provider was answered 500 with an error body
\* and the call has raised.
C4_Witness ==
    \E c \in Callers :
        /\ provider = "CustomOIDC"
        /\ pc[c] = "raised"
        /\ resp[c].status = 500 /\ resp[c].error = "invalid_client"

\* C5 (as claimed): no call of any provider ends by exiting the process.
C5_NeverExitsProcess ==
    \A c \in Callers : pc[c] # "exited"

\* C6 (as claimed): a transported 2xx JSON response lacking access_token or
\* expires_in never makes the call return a pair.
C6_MissingFieldNeverReturned ==
    provider \in Authenticated =>
        \A c \in Callers :
            /\ Finished(c) /\ Ok(resp[c]) /\ resp[c].json
            /\ (resp[c].access_token = None \/ resp[c].expires_in = None)
            => pc[c] # "returned"

\* C7 (as claimed): with two callers running concurrently, each caller that
\* returns yields the pair of the response to its own exchange.
C7_ConcurrentCallersOwnPair ==
    concurrent /\ provider \in Authenticated =>
        \A c \in Callers :
            pc[c] = "returned" =>
                result[c] = <<resp[c].access_token, resp[c].expires_in>>

\* C8 (as claimed): every ended call on an authenticated provider has issued
\* exactly one outbound request.
C8_ExactlyOneRequest ==
    provider \in Authenticated =>
        \A c \in Callers : Finished(c) => requests[c] = 1

\* C8 (amended): a call issues no request before its exchange, exactly one
\* from the exchange on, whether it succeeded or failed, and an ended call
\* has issued none only if it failed while loading key material.
C8_AtMostOneRequest ==
    provider \in Authenticated =>
        \A c \in Callers :
            /\ pc[c] \in {"key", "post"} => requests[c] = 0
            /\ pc[c] \in {"store_token", "store_expiry", "read_token",
                          "read_expiry", "returned"} => requests[c] = 1
            /\ pc[c] \in {"raised", "exited"} =>
                  IF resp[c] = NoResp
                  THEN requests[c] = 0 /\ provider \in KeyProviders
                  ELSE requests[c] = 1

\* C8 witness: an exchange failed with a non-success status and the call has
\* ended with that failure.
C8_Witness ==
    \E c \in Callers :
        /\ provider \in Authenticated
        /\ pc[c] \in {"raised", "exited"}
        /\ resp[c].status \in ErrStatus
        /\ requests[c] = 1

\* C9: the no-op provider returns ("no_token", None) from every
\* get_access_token call and never issues a request.
C9_NoOpFixedPair ==
    provider = "NoOp" =>
        \A c \in Callers :
            /\ requests[c] = 0
            /\ resp[c] = NoResp
            /\ pc[c] = "returned" /\ op[c] = "get_access_token" =>
                  result[c] = <<NO_TOKEN, None>>

\* C9 witness: get_access_token returned on a no-op provider on which
\* auth_token has been called as well.
C9_Witness ==
    \E c \in Callers, d \in Callers :
        /\ provider = "NoOp"
        /\ pc[c] = "returned" /\ op[c] = "get_access_token"
        /\ pc[d] = "returned" /\ op[d] = "auth_token"

\* C10 (as claimed): whenever no call is in progress, the stored token and
\* expiry are both None or were both taken from the same response.
C10_StoredPairFromOneResponse ==
    Quiescent =>
        \/ generated_auth_token = None /\ expiry = None
        \/ token_from = expiry_from

====
